---- MODULE Spec2Model ----
(***************************************************************************)
(* Contact normalisation and uniqueness counting of the upload service     *)
(* (src/main.py): cleanup_phone_numbers, cleanup_emails, save_contacts and *)
(* get_unique_contacts_count.                                              *)
(*                                                                         *)
(* Strings are sequences of one-character strings.  The phone alphabet is  *)
(* the digits, "+", " ", "-" and the letters "a" and "n"; the email        *)
(* alphabet is "A", "a", "c", "@" and " ".                                 *)
(*                                                                         *)
(* phonenumbers.parse / format_number are modelled by the algorithm of the *)
(* phonenumbers package restricted to the metadata of region IN (calling   *)
(* code 91, national prefix 0, international prefix 00); every other       *)
(* calling code is treated as unassigned, and extensions are outside the   *)
(* alphabet.                                                               *)
(***************************************************************************)
EXTENDS Integers, Sequences, FiniteSets, TLC

VARIABLES
    phones,          \* cleanup_phone_numbers: the argument `phones`
    cleaned_phones,  \* cleanup_phone_numbers: the returned list
    phones_done,     \* cleanup_phone_numbers has returned
    phones_fed,      \* `phones` is itself a list cleanup_phone_numbers returned
    emails,          \* cleanup_emails: the argument `emails`
    cleaned_emails,  \* cleanup_emails: the returned list
    emails_done,     \* cleanup_emails has returned
    corpus,          \* contacts_collection, in insertion order
    received,        \* number of contacts received by successful save_contacts calls
    pc,              \* get_unique_contacts_count: "idle" | "scan"
    scan_base,       \* documents in the collection when the cursor was opened
    visited,         \* positions (in corpus) the cursor has returned, in order
    counted,         \* for each visited document, whether it incremented unique_count
    unique_count,    \* get_unique_contacts_count: unique_count
    all_phones,      \* get_unique_contacts_count: all_phones
    result           \* last value returned by get_unique_contacts_count

vars == <<phones, cleaned_phones, phones_done, phones_fed, emails, cleaned_emails,
          emails_done, corpus, received, pc, scan_base, visited, counted, unique_count,
          all_phones, result>>

normalizer_vars == <<phones, cleaned_phones, phones_done, phones_fed, emails, cleaned_emails, emails_done>>

service_vars == <<corpus, received, pc, scan_base, visited, counted, unique_count,
                  all_phones, result>>

----------------------------------------------------------------------------
(* Characters and Python string methods                                    *)

Digits == {"0", "1", "2", "3", "4", "5", "6", "7", "8", "9"}

Alphas == {"a", "n", "A", "c"}

\* phonenumbers._VALID_PUNCTUATION restricted to the alphabet
Puncts == {" ", "-"}

Whitespace == {" "}

\* str.strip(): leading and trailing whitespace removed
RECURSIVE LStrip(_)
LStrip(s) == IF s # <<>> /\ Head(s) \in Whitespace THEN LStrip(Tail(s)) ELSE s

RECURSIVE RStrip(_)
RStrip(s) ==
    IF s # <<>> /\ s[Len(s)] \in Whitespace THEN RStrip(SubSeq(s, 1, Len(s) - 1)) ELSE s

Strip(s) == RStrip(LStrip(s))

\* str.lower() on the email alphabet
LowerChar(c) == IF c = "A" THEN "a" ELSE c

Lower(s) == [i \in 1..Len(s) |-> LowerChar(s[i])]

\* str.startswith('+')
StartsWithPlus(s) == s # <<>> /\ Head(s) = "+"

StartsWith(s, p) == Len(s) >= Len(p) /\ SubSeq(s, 1, Len(p)) = p

DropFirst(s, n) == SubSeq(s, n + 1, Len(s))

RECURSIVE Filter(_, _)
Filter(s, keep) ==
    IF s = <<>> THEN <<>>
    ELSE IF Head(s) \in keep THEN <<Head(s)>> \o Filter(Tail(s), keep)
    ELSE Filter(Tail(s), keep)

----------------------------------------------------------------------------
(* phonenumbers: parse                                                     *)

MIN_LENGTH_FOR_NSN == 2

MAX_LENGTH_FOR_NSN == 17

\* region 'IN'
IN_country_code == 91

IN_country_code_digits == <<"9", "1">>

IN_national_prefix == <<"0">>

IN_international_prefix == <<"0", "0">>

IN_possible_min == 8

IN_possible_max == 13

IN_local_only == {6, 7}

\* general_desc.national_number_pattern of IN: (?:000800|[2-9]\d\d)\d{7}|1\d{7,12}
IN_general_match(n) ==
    \/ Len(n) = 10 /\ n[1] \in {"2", "3", "4", "5", "6", "7", "8", "9"}
    \/ Len(n) = 13 /\ SubSeq(n, 1, 6) = <<"0", "0", "0", "8", "0", "0">>
    \/ Len(n) >= 8 /\ Len(n) <= 13 /\ n[1] = "1"

\* _test_number_length against the general description of IN
test_number_length(n) ==
    IF Len(n) \in IN_local_only THEN "IS_POSSIBLE_LOCAL_ONLY"
    ELSE IF Len(n) < IN_possible_min THEN "TOO_SHORT"
    ELSE IF Len(n) > IN_possible_max THEN "TOO_LONG"
    ELSE "IS_POSSIBLE"

\* _extract_possible_number: drop everything before the first digit or plus
\* sign, and trailing characters that are neither digits nor letters
RECURSIVE DropToStart(_)
DropToStart(s) ==
    IF s = <<>> \/ Head(s) \in Digits \cup {"+"} THEN s ELSE DropToStart(Tail(s))

RECURSIVE DropUnwantedEnd(_)
DropUnwantedEnd(s) ==
    IF s # <<>> /\ s[Len(s)] \notin Digits \cup Alphas
    THEN DropUnwantedEnd(SubSeq(s, 1, Len(s) - 1)) ELSE s

extract_possible_number(s) == DropUnwantedEnd(DropToStart(s))

RECURSIVE DropPlus(_)
DropPlus(s) == IF StartsWithPlus(s) THEN DropPlus(Tail(s)) ELSE s

\* index of the first letter of s, or Len(s) + 1
RECURSIVE FirstAlpha(_, _)
FirstAlpha(s, i) ==
    IF i > Len(s) \/ s[i] \in Alphas THEN i ELSE FirstAlpha(s, i + 1)

\* [+]*(?:[punct]*\d){3,}[punct alpha \d]* on the part after the plus signs
viable_after_plus(rest) ==
    /\ \A i \in 1..Len(rest) : rest[i] \in Digits \cup Puncts \cup Alphas
    /\ Len(Filter(SubSeq(rest, 1, FirstAlpha(rest, 1) - 1), Digits)) >= 3

\* _is_viable_phone_number: \d{2} | [+]*(?:[punct]*\d){3,}[punct alpha \d]*
is_viable_phone_number(s) ==
    /\ Len(s) >= MIN_LENGTH_FOR_NSN
    /\ \/ Len(s) = 2 /\ s[1] \in Digits /\ s[2] \in Digits
       \/ viable_after_plus(DropPlus(s))

\* _ALPHA_PHONE_MAPPINGS
AlphaDigit(c) == IF c \in {"a", "A", "c"} THEN "2" ELSE "6"

normalize_alpha(kept) ==
    [i \in 1..Len(kept) |-> IF kept[i] \in Alphas THEN AlphaDigit(kept[i]) ELSE kept[i]]

\* _normalize: letters become keypad digits when the number holds three or
\* more letters, otherwise only the digits are kept
normalize(s) ==
    IF Len(Filter(s, Alphas)) >= 3
    THEN normalize_alpha(Filter(s, Digits \cup Alphas))
    ELSE Filter(s, Digits)

\* the original number was viable and the stripped one is not: keep it
keep_if_only_original_viable(n, stripped) ==
    IF IN_general_match(n) /\ ~IN_general_match(stripped) THEN n ELSE stripped

\* _maybe_strip_national_prefix_carrier_code with the metadata of IN
maybe_strip_national_prefix(n) ==
    IF n # <<>> /\ StartsWith(n, IN_national_prefix)
    THEN keep_if_only_original_viable(n, DropFirst(n, Len(IN_national_prefix)))
    ELSE n

\* a raised NumberParseException of the given error_type
Failure(error_type) ==
    [ok |-> FALSE, error |-> error_type, country_code |-> 0, national |-> <<>>]

Extracted(cc, n) == [ok |-> TRUE, error |-> "", country_code |-> cc, national |-> n]

\* _extract_country_code: the only assigned calling code is 91
extract_country_code(full) ==
    IF full # <<>> /\ Head(full) # "0" /\ StartsWith(full, IN_country_code_digits)
    THEN Extracted(IN_country_code, DropFirst(full, Len(IN_country_code_digits)))
    ELSE Extracted(0, full)

\* _parse_prefix_as_idd on the normalized number
parse_prefix_as_idd(n) ==
    /\ StartsWith(n, IN_international_prefix)
    /\ ~(Len(n) > Len(IN_international_prefix) /\ n[Len(IN_international_prefix) + 1] = "0")

\* _maybe_extract_country_code, number written with a plus sign or an IDD
extract_after_prefix(full) ==
    IF Len(full) <= MIN_LENGTH_FOR_NSN THEN Failure("TOO_SHORT_AFTER_IDD")
    ELSE IF extract_country_code(full).country_code # 0 THEN extract_country_code(full)
    ELSE Failure("INVALID_COUNTRY_CODE")

\* the number starts with the calling code of the default region
strip_default_code(full, potential) ==
    IF \/ ~IN_general_match(full) /\ IN_general_match(potential)
       \/ test_number_length(full) = "TOO_LONG"
    THEN Extracted(IN_country_code, potential)
    ELSE Extracted(0, <<>>)

\* _maybe_extract_country_code, number written without plus sign or IDD
extract_default(full) ==
    IF StartsWith(full, IN_country_code_digits)
    THEN strip_default_code(
             full, maybe_strip_national_prefix(DropFirst(full, Len(IN_country_code_digits))))
    ELSE Extracted(0, <<>>)

extract_normalized(plus, norm, has_metadata) ==
    IF plus THEN extract_after_prefix(norm)
    ELSE IF has_metadata /\ parse_prefix_as_idd(norm)
    THEN extract_after_prefix(DropFirst(norm, Len(IN_international_prefix)))
    ELSE IF has_metadata THEN extract_default(norm)
    ELSE Extracted(0, <<>>)

\* _maybe_extract_country_code; has_metadata is FALSE when region is None
maybe_extract_country_code(number, has_metadata) ==
    IF number = <<>> THEN Extracted(0, <<>>)
    ELSE extract_normalized(StartsWithPlus(number), normalize(DropPlus(number)), has_metadata)

\* parse: the length checks on the national significant number
check_length(nsn) ==
    IF Len(nsn) < MIN_LENGTH_FOR_NSN THEN Failure("TOO_SHORT_NSN")
    ELSE IF Len(nsn) > MAX_LENGTH_FOR_NSN THEN Failure("TOO_LONG")
    ELSE Extracted(IN_country_code, nsn)

\* parse: the national prefix is stripped, once, when what is left has a
\* possible length for the region
strip_if_possible(nsn, potential) ==
    check_length(IF test_number_length(potential) \in {"TOO_SHORT", "IS_POSSIBLE_LOCAL_ONLY"}
                 THEN nsn ELSE potential)

strip_prefix_and_check(nsn) ==
    IF Len(nsn) < MIN_LENGTH_FOR_NSN THEN Failure("TOO_SHORT_NSN")
    ELSE strip_if_possible(nsn, maybe_strip_national_prefix(nsn))

\* parse: no calling code extracted means the number is a national number
\* of the default region
parse_national(national_number, e) ==
    strip_prefix_and_check(IF e.country_code # 0 THEN e.national
                           ELSE e.national \o normalize(national_number))

\* parse: INVALID_COUNTRY_CODE after a plus sign; the plus is stripped and
\* the extraction tried again
parse_retried(national_number, retry) ==
    IF ~retry.ok THEN retry
    ELSE IF retry.country_code = 0 THEN Failure("INVALID_COUNTRY_CODE")
    ELSE parse_national(national_number, retry)

parse_extracted(national_number, has_metadata, first) ==
    IF first.ok THEN parse_national(national_number, first)
    ELSE IF first.error = "INVALID_COUNTRY_CODE" /\ StartsWithPlus(national_number)
    THEN parse_retried(national_number,
                       maybe_extract_country_code(DropPlus(national_number), has_metadata))
    ELSE first

parse_possible(national_number, region_is_IN) ==
    IF ~is_viable_phone_number(national_number) THEN Failure("NOT_A_NUMBER")
    ELSE IF ~region_is_IN /\ ~StartsWithPlus(national_number)
    THEN Failure("INVALID_COUNTRY_CODE")
    ELSE parse_extracted(national_number, region_is_IN,
                         maybe_extract_country_code(national_number, region_is_IN))

\* phonenumbers.parse(number, region) with region in {None, 'IN'}:
\* region_is_IN is FALSE for region None.  ok = FALSE stands for a raised
\* NumberParseException.  The PhoneNumber is the calling code and the
\* national significant number (leading zeros kept, as italian_leading_zero
\* and number_of_leading_zeros keep them).
parse(number, region_is_IN) == parse_possible(extract_possible_number(number), region_is_IN)

\* ten-digit numbers that start with 6..9 are grouped five and five, the
\* others are left ungrouped
format_nsn(n) ==
    IF Len(n) = 10 /\ n[1] \in {"6", "7", "8", "9"}
    THEN SubSeq(n, 1, 5) \o <<" ">> \o SubSeq(n, 6, 10)
    ELSE n

\* phonenumbers.format_number(parsed, PhoneNumberFormat.INTERNATIONAL)
format_number(parsed) ==
    <<"+">> \o IN_country_code_digits \o <<" ">> \o format_nsn(parsed.national)

----------------------------------------------------------------------------
(* Normalizer: cleanup_phone_numbers and cleanup_emails                    *)

\* line 39: region = None if phone.strip().startswith('+') else 'IN'
region_is_IN(phone) == ~StartsWithPlus(Strip(phone))

LoopStart == [seen |-> {}, cleaned |-> <<>>]

\* the membership test forgotten: every entry is appended
add_always(st, x) == [seen |-> st.seen \cup {x}, cleaned |-> Append(st.cleaned, x)]

\* lines 45-47 and 50-52: if x not in seen: seen.add(x); cleaned.append(x)
add_unseen(st, x) ==
    IF x \notin st.seen
    THEN [seen |-> st.seen \cup {x}, cleaned |-> Append(st.cleaned, x)]
    ELSE st

\* the fallback keeps the trimmed string instead of the original
keep_formatted_or_trimmed(st, phone, parsed) ==
    IF parsed.ok
    THEN IF format_number(parsed) \notin st.seen
         THEN [seen    |-> st.seen \cup {format_number(parsed)},
               cleaned |-> Append(st.cleaned, format_number(parsed))]
         ELSE st
    ELSE IF Strip(phone) \notin st.seen
         THEN [seen |-> st.seen \cup {Strip(phone)}, cleaned |-> Append(st.cleaned, Strip(phone))]
         ELSE st

\* lines 43-52: the formatted number, or the phone itself when parse raised
\* NumberParseException
keep_formatted_or_phone(st, phone, parsed) ==
    IF parsed.ok THEN add_unseen(st, format_number(parsed)) ELSE add_unseen(st, phone)

\* one iteration of the loop of cleanup_phone_numbers
cleanup_phone_step(st, phone) ==
    keep_formatted_or_phone(st, phone, parse(phone, region_is_IN(phone)))

RECURSIVE PhoneLoop(_, _, _)
PhoneLoop(st, list, i) ==
    IF i > Len(list) THEN st ELSE PhoneLoop(cleanup_phone_step(st, list[i]), list, i + 1)

cleanup_phone_numbers(list) == PhoneLoop(LoopStart, list, 1).cleaned

\* the email is trimmed but not lowercased
cleanup_email_step_no_lower(st, email) ==
    IF Strip(email) \notin st.seen
    THEN [seen |-> st.seen \cup {Strip(email)}, cleaned |-> Append(st.cleaned, Strip(email))]
    ELSE st

\* one iteration of the loop of cleanup_emails
cleanup_email_step(st, email) == add_unseen(st, Strip(Lower(email)))

RECURSIVE EmailLoop(_, _, _)
EmailLoop(st, list, i) ==
    IF i > Len(list) THEN st ELSE EmailLoop(cleanup_email_step(st, list[i]), list, i + 1)

cleanup_emails(list) == EmailLoop(LoopStart, list, 1).cleaned

----------------------------------------------------------------------------
(* Inputs                                                                  *)

MaxPhones == 3

MaxEmails == 3

MaxBatch == 2

MaxCorpus == 3

Mobile == <<"9", "8", "7", "6", "5", "4", "3", "2", "1", "0">>

Canonical == <<"+", "9", "1", " ", "9", "8", "7", "6", "5", " ", "4", "3", "2", "1", "0">>

Trunk == <<"0">> \o Mobile

Doubled == <<"+", "9", "1", "0", "0">> \o Mobile

OtherMobile == <<"9", "1", "2", "3", "4", "5", "6", "7", "8", "0">>

Short == <<"1", "2", "3">>

Word == <<"n", "-", "a">>

PaddedWord == <<" ">> \o Word

PlusUnassigned == <<"+", "9", "9", "1", "2", "3">>

RawPhones == {Mobile, Canonical, Trunk, Doubled, OtherMobile, Short, Word, PaddedWord,
              PlusUnassigned}

MailUpper == <<"A", "@", "c">>

MailPadded == <<" ", "a", "@", "c", " ">>

MailOther == <<"c", "@", "a">>

MailInner == <<"a", " ", "c">>

MailBlank == <<" ">>

RawEmails == {MailUpper, MailPadded, MailOther, MailInner, MailBlank, <<>>}

SeqsUpTo(S, n) == UNION {[1..k -> S] : k \in 0..n}

PhoneLists == SeqsUpTo(RawPhones, MaxPhones)

EmailLists == SeqsUpTo(RawEmails, MaxEmails)

\* contacts of a request body: {"phones": [...], "emails": [...]}
RawContacts ==
    { [phones |-> <<Mobile>>, emails |-> <<MailUpper, MailPadded>>],
      [phones |-> <<Canonical, OtherMobile, Mobile>>, emails |-> <<>>],
      [phones |-> <<OtherMobile>>, emails |-> <<MailOther>>],
      [phones |-> <<>>, emails |-> <<MailUpper>>] }

Batches == SeqsUpTo(RawContacts, MaxBatch)

None == [count |-> -1, phones |-> {}]

----------------------------------------------------------------------------
(* Normalizer calls                                                        *)

InitService ==
    /\ corpus = <<>>
    /\ received = 0
    /\ pc = "idle"
    /\ scan_base = 0
    /\ visited = <<>>
    /\ counted = <<>>
    /\ unique_count = 0
    /\ all_phones = {}
    /\ result = None

InitPhones ==
    /\ phones \in PhoneLists
    /\ cleaned_phones = <<>>
    /\ phones_done = FALSE
    /\ phones_fed = FALSE
    /\ emails = <<>>
    /\ cleaned_emails = <<>>
    /\ emails_done = TRUE
    /\ InitService

\* cleanup_phone_numbers(phones) runs to its return
CallCleanupPhones ==
    /\ ~phones_done
    /\ cleaned_phones' = cleanup_phone_numbers(phones)
    /\ phones_done' = TRUE
    /\ UNCHANGED <<phones, phones_fed, emails, cleaned_emails, emails_done>>
    /\ UNCHANGED service_vars

\* the returned list becomes the argument of a second call
FeedBackPhones ==
    /\ phones_done
    /\ ~phones_fed
    /\ phones' = cleaned_phones
    /\ phones_fed' = TRUE
    /\ phones_done' = FALSE
    /\ cleaned_phones' = <<>>
    /\ UNCHANGED <<emails, cleaned_emails, emails_done>>
    /\ UNCHANGED service_vars

NextPhones == CallCleanupPhones \/ FeedBackPhones

SpecPhones == InitPhones /\ [][NextPhones]_vars

InitEmails ==
    /\ emails \in EmailLists
    /\ cleaned_emails = <<>>
    /\ emails_done = FALSE
    /\ phones = <<>>
    /\ cleaned_phones = <<>>
    /\ phones_done = TRUE
    /\ phones_fed = TRUE
    /\ InitService

\* cleanup_emails(emails) runs to its return
CallCleanupEmails ==
    /\ ~emails_done
    /\ cleaned_emails' = cleanup_emails(emails)
    /\ emails_done' = TRUE
    /\ UNCHANGED <<emails, phones, cleaned_phones, phones_done, phones_fed>>
    /\ UNCHANGED service_vars

NextEmails == CallCleanupEmails

SpecEmails == InitEmails /\ [][NextEmails]_vars

----------------------------------------------------------------------------
(* Service: save_contacts and get_unique_contacts_count                    *)

Range(f) == {f[i] : i \in DOMAIN f}

PhoneSet(doc) == Range(doc.phones)

\* uuid.uuid4(): an identifier no stored document has
fresh_id(stored, k) == Len(stored) + k

\* lines 115-117 and 129-137: the document inserted for the k-th contact
contact_doc(stored, contact, k) ==
    [id     |-> fresh_id(stored, k),
     phones |-> cleanup_phone_numbers(contact.phones),
     emails |-> cleanup_emails(contact.emails)]

\* contacts without phones are skipped
insert_with_phones(stored, batch) ==
    stored \o SelectSeq([k \in 1..Len(batch) |-> contact_doc(stored, batch[k], k)],
                        LAMBDA d : d.phones # <<>>)

\* lines 128-138: one insert_one per contact of the batch
insert_all(stored, batch) ==
    stored \o [k \in 1..Len(batch) |-> contact_doc(stored, batch[k], k)]

\* POST /save-contacts with a batch of contacts
save_contacts ==
    \E batch \in Batches :
        /\ Len(corpus) + Len(batch) <= MaxCorpus
        /\ corpus' = insert_all(corpus, batch)
        /\ received' = received + Len(batch)
        /\ UNCHANGED <<pc, scan_base, visited, counted, unique_count, all_phones, result>>
        /\ UNCHANGED normalizer_vars

\* find({}): no filter
find_all(doc) == TRUE

\* lines 80-82: find({"phones": {"$exists": True, "$ne": []}})
find_filter(doc) == doc.phones # <<>>

\* lines 75-82: the counters are reset and the cursor is opened
ScanStart ==
    /\ pc = "idle"
    /\ pc' = "scan"
    /\ unique_count' = 0
    /\ all_phones' = {}
    /\ visited' = <<>>
    /\ counted' = <<>>
    /\ scan_base' = Len(corpus)
    /\ UNCHANGED <<corpus, received, result>>
    /\ UNCHANGED normalizer_vars

\* the count goes up by the number of phones not seen before
scan_contact_per_phone(st, contact_phones) ==
    [unique_count |-> st.unique_count + Cardinality(contact_phones \ st.all_phones),
     all_phones   |-> st.all_phones \cup contact_phones]

\* the set of phones is replaced by the phones of the contact
scan_contact_keep_last(st, contact_phones) ==
    [unique_count |-> IF contact_phones \cap st.all_phones = {}
                      THEN st.unique_count + 1 ELSE st.unique_count,
     all_phones   |-> contact_phones]

\* the phones are added only when the contact is counted
scan_contact_add_if_unique(st, contact_phones) ==
    IF contact_phones \cap st.all_phones = {}
    THEN [unique_count |-> st.unique_count + 1,
          all_phones   |-> st.all_phones \cup contact_phones]
    ELSE st

\* lines 85-92: the body of the loop for one contact
scan_contact(st, contact_phones) ==
    [unique_count |-> IF contact_phones \cap st.all_phones = {}
                      THEN st.unique_count + 1 ELSE st.unique_count,
     all_phones   |-> st.all_phones \cup contact_phones]

\* lines 84-92: the cursor returns one more matching document, in any order
ScanStep ==
    /\ pc = "scan"
    /\ \E i \in 1..Len(corpus) :
        /\ i \notin Range(visited)
        /\ find_filter(corpus[i])
        /\ LET st == scan_contact([unique_count |-> unique_count, all_phones |-> all_phones],
                                  PhoneSet(corpus[i]))
           IN  /\ unique_count' = st.unique_count
               /\ all_phones' = st.all_phones
               /\ counted' = Append(counted, st.unique_count # unique_count)
        /\ visited' = Append(visited, i)
    /\ UNCHANGED <<corpus, received, pc, scan_base, result>>
    /\ UNCHANGED normalizer_vars

\* line 94: the cursor is exhausted; a document inserted after the cursor was
\* opened may or may not have been returned
ScanReturn ==
    /\ pc = "scan"
    /\ \A i \in 1..scan_base : find_filter(corpus[i]) => i \in Range(visited)
    /\ result' = [count |-> unique_count, phones |-> all_phones]
    /\ pc' = "idle"
    /\ UNCHANGED <<corpus, received, scan_base, visited, counted, unique_count, all_phones>>
    /\ UNCHANGED normalizer_vars

Init ==
    /\ phones = <<>>
    /\ cleaned_phones = <<>>
    /\ phones_done = TRUE
    /\ phones_fed = TRUE
    /\ emails = <<>>
    /\ cleaned_emails = <<>>
    /\ emails_done = TRUE
    /\ InitService

Next == save_contacts \/ ScanStart \/ ScanStep \/ ScanReturn

Spec == Init /\ [][Next]_vars

----------------------------------------------------------------------------
(* get_unique_contacts_count as a function of the order of enumeration     *)

RECURSIVE ScanLoop(_, _, _)
ScanLoop(st, order, k) ==
    IF k > Len(order) THEN st
    ELSE ScanLoop(scan_contact(st, PhoneSet(corpus[order[k]])), order, k + 1)

\* lines 75-94 over the documents at positions order[1], order[2], ...
count_in_order(order) == ScanLoop([unique_count |-> 0, all_phones |-> {}], order, 1)

----------------------------------------------------------------------------
(* Properties of the normalizer                                            *)

\* the canonical form of an entry: its international formatting when it
\* parses, the entry itself otherwise
CanonicalForm(p) ==
    LET parsed == parse(p, region_is_IN(p))
    IN  IF parsed.ok THEN format_number(parsed) ELSE p

Malformed(p) == ~parse(p, region_is_IN(p)).ok

EmailForm(e) == Strip(Lower(e))

\* positions of s holding a value that no earlier position holds
FirstIdx(s) == {i \in 1..Len(s) : \A j \in 1..(i - 1) : s[j] # s[i]}

\* out is s with every repetition of an earlier value dropped
IsFirstOccurrences(out, s) ==
    /\ Len(out) = Cardinality(FirstIdx(s))
    /\ \A i \in FirstIdx(s) : out[Cardinality({j \in FirstIdx(s) : j <= i})] = s[i]

PairwiseDistinct(s) == \A a, b \in 1..Len(s) : a # b => s[a] # s[b]

\* C5: no two elements of the list cleanup_phone_numbers returns have the
\* same canonical form.
C5_NoTwoOutputsCanonicallyEqual ==
    phones_done =>
        PairwiseDistinct([k \in 1..Len(cleaned_phones) |-> CanonicalForm(cleaned_phones[k])])

\* C6: the list cleanup_phone_numbers returns is the list of the canonical
\* forms of the entries, in input order, without the entries whose canonical
\* form occurred earlier in the input; every entry of the input is accounted
\* for.
C6_OutputIsFirstOccurrencesOfCanonicalForms ==
    phones_done =>
        IsFirstOccurrences(cleaned_phones, [i \in 1..Len(phones) |-> CanonicalForm(phones[i])])

\* a call that dropped an entry written differently from the earlier entry
\* it repeats, and kept a later one
C6_Witness ==
    /\ phones_done
    /\ Len(phones) = 3
    /\ Len(cleaned_phones) = 2
    /\ phones[1] # phones[2]
    /\ CanonicalForm(phones[1]) = CanonicalForm(phones[2])
    /\ cleaned_phones[2] = CanonicalForm(phones[3])

\* C7: the malformed entries of the input appear in the returned list as
\* they were written, each once, in the order of their first occurrence: a
\* malformed entry is dropped only when the same string occurred earlier.
C7_MalformedKeptVerbatim ==
    phones_done =>
        /\ IsFirstOccurrences(SelectSeq(cleaned_phones, Malformed), SelectSeq(phones, Malformed))
        /\ \A i \in 1..Len(phones) :
               Malformed(phones[i]) => \E k \in 1..Len(cleaned_phones) : cleaned_phones[k] = phones[i]

\* a call with a parsed entry followed by a malformed entry that has leading
\* whitespace, given twice
C7_Witness ==
    /\ phones_done
    /\ Len(phones) = 3
    /\ ~Malformed(phones[1])
    /\ Malformed(phones[2])
    /\ Strip(phones[2]) # phones[2]
    /\ phones[3] = phones[2]
    /\ cleaned_phones = <<CanonicalForm(phones[1]), phones[2]>>

\* C8: cleanup_phone_numbers applied to a list it returned gives that list.
C8_IdempotentOnOwnOutput == (phones_fed /\ phones_done) => cleaned_phones = phones

\* C9: cleanup_emails returns the lowercased and trimmed entries, in input
\* order, without repetitions, so no two returned emails are equal up to case
\* and surrounding whitespace.
C9_EmailsLoweredTrimmedFirstOccurrences ==
    emails_done =>
        /\ IsFirstOccurrences(cleaned_emails, [i \in 1..Len(emails) |-> EmailForm(emails[i])])
        /\ PairwiseDistinct([k \in 1..Len(cleaned_emails) |-> EmailForm(cleaned_emails[k])])

\* cleanup_emails(["A@c", " a@c ", "c@a"]) = ["a@c", "c@a"]
C9_Witness ==
    /\ emails_done
    /\ emails = <<MailUpper, MailPadded, MailOther>>
    /\ cleaned_emails = <<<<"a", "@", "c">>, <<"c", "@", "a">>>>

----------------------------------------------------------------------------
(* Properties of the uniqueness count                                      *)

\* get_unique_contacts_count has returned
Returned == pc = "idle" /\ result # None

\* the phone set of the k-th enumerated contact
VisitedPhones(k) == PhoneSet(corpus[visited[k]])

\* the phones of the contacts enumerated strictly before the k-th
PhonesBefore(k) == UNION {VisitedPhones(j) : j \in 1..(k - 1)}

HasPhone(doc) == doc.phones # <<>>

\* the enumerated contacts that have a phone and share none with the
\* contacts enumerated before them
FirstSeen ==
    {k \in 1..Len(visited) :
        HasPhone(corpus[visited[k]]) /\ VisitedPhones(k) \cap PhonesBefore(k) = {}}

\* C1: the count equals the number of enumerated contacts with a non-empty
\* phone list whose phones are disjoint from the phones of all contacts
\* enumerated before them; the enumeration holds every stored contact that
\* has a phone and no other contact.
C1_CountIsNumberOfFirstSeenContacts ==
    /\ unique_count = Cardinality(FirstSeen)
    /\ \A k \in 1..Len(visited) : HasPhone(corpus[visited[k]])
    /\ Returned =>
        /\ result.count = Cardinality(FirstSeen)
        /\ \A i \in 1..scan_base : HasPhone(corpus[i]) => i \in Range(visited)

\* a finished count over a collection that holds a contact without phones
\* and a contact whose phone was seen before
C1_Witness ==
    /\ Returned
    /\ Len(corpus) = 3
    /\ scan_base = 3
    /\ Len(visited) = 2
    /\ result.count = 1
    /\ \E i \in 1..Len(corpus) : ~HasPhone(corpus[i])

\* C2: at every step of the scan and in the returned value, the count is
\* between 0 and the number of contacts with a phone enumerated so far, which
\* is at most the number of stored contacts with a phone.
C2_CountWithinBounds ==
    /\ 0 <= unique_count
    /\ unique_count <= Cardinality({k \in 1..Len(visited) : HasPhone(corpus[visited[k]])})
    /\ unique_count <= Cardinality({i \in 1..Len(corpus) : HasPhone(corpus[i])})
    /\ Returned =>
        /\ 0 <= result.count
        /\ result.count <= Cardinality({i \in 1..Len(corpus) : HasPhone(corpus[i])})

\* a scan in progress whose count is below the number of contacts enumerated
C2_Witness ==
    /\ pc = "scan"
    /\ Len(visited) = 2
    /\ unique_count = 1
    /\ \E i \in 1..Len(corpus) : ~HasPhone(corpus[i])

Linked(j, k) == VisitedPhones(j) \cap VisitedPhones(k) # {}

RECURSIVE Chain(_, _)
Chain(S, n) ==
    IF n = 0 THEN S
    ELSE Chain(S \cup {k \in 1..Len(visited) : \E j \in S : Linked(j, k)}, n - 1)

\* the enumerated contacts linked to the k-th, directly or through a chain
GroupOf(k) == Chain({k}, Len(visited))

FirstOfGroup(k) == \A j \in GroupOf(k) : j >= k

\* C3 as stated: of every group of linked contacts, the first one enumerated
\* is counted and no other.
C3_OnlyFirstOfGroupCounted ==
    Returned => \A k \in 1..Len(visited) : counted[k] <=> FirstOfGroup(k)

\* C3 as amended: the first contact enumerated of a group is counted, and a
\* later contact is counted exactly when it shares no phone with any contact
\* enumerated before it.
C3_FirstOfGroupCountedAndDirectSharersNot ==
    \A k \in 1..Len(visited) :
        /\ FirstOfGroup(k) => counted[k]
        /\ counted[k] <=> ~(\E j \in 1..(k - 1) : Linked(j, k))

\* a finished count in which a contact that is not the first of its group
\* was counted
C3_Witness ==
    /\ Returned
    /\ \E k \in 1..Len(visited) : counted[k] /\ ~FirstOfGroup(k)

RECURSIVE Orders(_)
Orders(S) ==
    IF S = {} THEN {<<>>} ELSE UNION {{<<x>> \o o : o \in Orders(S \ {x})} : x \in S}

\* C4: whatever the order of enumeration of the same contacts, the returned
\* set of phones is the same, the union of their phone sets (the count may
\* differ from one order to another).
C4_PhonesSameInEveryOrder ==
    Returned =>
        /\ result.phones = UNION {PhoneSet(corpus[i]) : i \in Range(visited)}
        /\ \A o \in Orders(Range(visited)) : count_in_order(o).all_phones = result.phones

\* a finished count for which another order of the same contacts gives
\* another count and the same phones
C4_Witness ==
    /\ Returned
    /\ \E o \in Orders(Range(visited)) :
        /\ count_in_order(o).unique_count # result.count
        /\ count_in_order(o).all_phones = result.phones

\* C10: a step never changes or removes a stored document; a step of the
\* count leaves the collection as it is; a save adds one document per contact
\* received, each with an identifier no stored document has.
C10_CorpusAppendOnly ==
    [][ /\ Len(corpus') >= Len(corpus)
        /\ SubSeq(corpus', 1, Len(corpus)) = corpus
        /\ <<pc, visited, unique_count, all_phones, result>>'
               # <<pc, visited, unique_count, all_phones, result>> => corpus' = corpus
        /\ Len(corpus') - Len(corpus) = received' - received
        /\ \A i, j \in 1..Len(corpus') : i # j => corpus'[i].id # corpus'[j].id
      ]_vars

\* a save during a scan, after which the scan went on
C10_Witness ==
    /\ pc = "scan"
    /\ scan_base > 0
    /\ scan_base < Len(corpus)
    /\ Len(visited) = Len(corpus)
    /\ received = MaxCorpus

====
